---- MODULE Spec2Model ----
(***************************************************************************)
(* Model of SourceCodeComparer.py: the comparison engine (fast_hash,       *)
(* read_lines, collect_source_files, compare_file) as operators, and the   *)
(* run of UESourceDiffApp (_start_comparison, _cancel, the comparison      *)
(* thread with its ThreadPoolExecutor workers, the Tk event queue fed by   *)
(* root.after, _finish) as a state machine.                                *)
(*                                                                         *)
(* Relative paths are the integers 0..MaxPaths, whose order stands for the *)
(* lexicographic order of the path strings.  Text is a sequence of         *)
(* one-character strings.  The _log callbacks are left out: no state that  *)
(* the program reads depends on the log widget.                            *)
(***************************************************************************)
EXTENDS Integers, Sequences, FiniteSets, TLC

\* ------------------------------------------------------------------ bounds
MaxPaths == 2       \* source paths 1..MaxPaths may exist under a root
MaxThreads == 2     \* the thread-count spin box offers 1..MaxThreads
MaxRuns == 2        \* Run is clicked at most MaxRuns times
MaxFaults == 1      \* worker calls that may raise in one run

\* --------------------------------------------------------------- constants
context_lines == 3  \* self.context_lines = tk.IntVar(value=3)
BatchSize == 50     \* p % 50 == 0

\* ------------------------------------------------------------ file system
Paths == 1..MaxPaths          \* files with a source extension
ReadmePath == 0               \* a file without one, present under both roots
AllFiles == {ReadmePath} \cup Paths

\* File name extension of each path, as os.path.splitext(fname)[1] gives it.
ExtOf(p) == IF p = ReadmePath THEN ".txt" ELSE IF p % 2 = 1 THEN ".h" ELSE ".CPP"

Lower(ext) == IF ext = ".CPP" THEN ".cpp" ELSE ext

DEFAULT_EXTENSIONS ==
    {".h", ".hpp", ".hxx", ".c", ".cpp", ".cxx", ".cc", ".inl", ".inc", ".cs",
     ".usf", ".ush", ".py", ".xml", ".json", ".ini", ".cfg", ".uproject", ".uplugin"}

\* Lines of text, each a sequence of characters ending in a newline.
LineX == <<"x", "\n">>
LineY == <<"y", "\n">>

\* A file: whether it is there, whether open() succeeds on it, its text as
\* lines, and whether its bytes end each line with "\r\n" instead of "\n".
Absent == [exists |-> FALSE, readable |-> FALSE, lines |-> <<>>, crlf |-> FALSE]
FileX  == [exists |-> TRUE, readable |-> TRUE, lines |-> <<LineX>>, crlf |-> FALSE]
FileXY == [exists |-> TRUE, readable |-> TRUE, lines |-> <<LineX, LineY>>,
           crlf |-> FALSE]

FileStates == {Absent, FileX, FileXY}

\* The bytes on disk of one line and of a file (UTF-8 of the text, each
\* newline written as the file's line ending).
LineBytes(l, crlf) ==
    IF crlf /\ l # <<>> /\ l[Len(l)] = "\n"
    THEN SubSeq(l, 1, Len(l) - 1) \o <<"\r", "\n">> ELSE l

RECURSIVE Bytes(_)
Bytes(file) ==
    IF file.lines = <<>> THEN <<>>
    ELSE LineBytes(Head(file.lines), file.crlf)
         \o Bytes([file EXCEPT !.lines = Tail(file.lines)])

\* ------------------------------------------------------------ pure engine
None == [none |-> TRUE]

\* fast_hash: the digest of the bytes, "" when the file cannot be read.
fast_hash(file) == IF file.readable THEN <<"md5", Bytes(file)>> ELSE <<>>

\* read_lines: the lines, [] when no encoding could open the file.
read_lines(file) == IF file.readable THEN file.lines ELSE <<>>

\* collect_source_files: the relative paths under a root whose extension is
\* selected (the map's keys; the value of a key p is the file tree[p]).
collect_source_files(tree, extensions) ==
    {p \in DOMAIN tree : tree[p].exists /\ Lower(ExtOf(p)) \in extensions}

Slice(s, i, j) == IF i > j THEN <<>> ELSE SubSeq(s, i, j)

\* Length of the common run of a from i and b from j.
RECURSIVE RunLen(_, _, _, _)
RunLen(a, b, i, j) ==
    IF i > Len(a) \/ j > Len(b) \/ a[i] # b[j] THEN 0
    ELSE 1 + RunLen(a, b, i + 1, j + 1)

\* difflib.SequenceMatcher.find_longest_match: the longest common block,
\* the one starting earliest in a, then earliest in b.
LongestMatch(a, b) ==
    LET cands == {<<i, j>> \in (1..Len(a)) \X (1..Len(b)) : RunLen(a, b, i, j) > 0}
        best == CHOOSE c \in cands :
                  \A d \in cands :
                     \/ RunLen(a, b, c[1], c[2]) > RunLen(a, b, d[1], d[2])
                     \/ /\ RunLen(a, b, c[1], c[2]) = RunLen(a, b, d[1], d[2])
                        /\ (c[1] < d[1] \/ (c[1] = d[1] /\ c[2] <= d[2]))
    IN IF cands = {} THEN <<0, 0, 0>>
       ELSE <<best[1], best[2], RunLen(a, b, best[1], best[2])>>

Prefixed(ch, ls) == [k \in 1..Len(ls) |-> <<ch>> \o ls[k]]

\* Body lines of the one hunk: ' ' for common lines, '-' then '+' for a
\* replaced block (difflib's opcodes equal/replace/delete/insert).
RECURSIVE HunkLines(_, _)
HunkLines(a, b) ==
    LET m == LongestMatch(a, b)
    IN IF m[3] = 0 THEN Prefixed("-", a) \o Prefixed("+", b)
       ELSE HunkLines(Slice(a, 1, m[1] - 1), Slice(b, 1, m[2] - 1))
            \o Prefixed(" ", Slice(a, m[1], m[1] + m[3] - 1))
            \o HunkLines(Slice(a, m[1] + m[3], Len(a)), Slice(b, m[2] + m[3], Len(b)))

\* difflib._format_range_unified for a hunk that spans the whole file.
FormatRange(len) ==
    IF len = 1 THEN <<"1">> ELSE IF len = 0 THEN <<"0", ",", "0">>
    ELSE <<"1", ",", ToString(len)>>

\* difflib.unified_diff(lines_a, lines_b, fromfile, tofile, n): nothing for
\* equal inputs, else the two file headers, the hunk header and the body.
\* Files are shorter than 2n lines, so there is one hunk and no context is cut.
unified_diff(a, b, rel_path, n) ==
    IF a = b THEN <<>>
    ELSE << <<"-", "-", "-", " ", "A", "/", ToString(rel_path), "\n">>,
            <<"+", "+", "+", " ", "B", "/", ToString(rel_path), "\n">>,
            <<"@", "@", " ", "-">> \o FormatRange(Len(a)) \o <<" ", "+">>
               \o FormatRange(Len(b)) \o <<" ", "@", "@", "\n">> >>
         \o HunkLines(a, b)

startswith(l, prefix) ==
    Len(l) >= Len(prefix) /\ SubSeq(l, 1, Len(prefix)) = prefix

RECURSIVE rstrip_nl(_)
rstrip_nl(l) ==
    IF l # <<>> /\ l[Len(l)] = "\n" THEN rstrip_nl(SubSeq(l, 1, Len(l) - 1)) ELSE l

\* l.startswith("+") and not l.startswith("+++")
IsAddedLine(l) == startswith(l, <<"+">>) /\ ~startswith(l, <<"+", "+", "+">>)

\* l.startswith("-") and not l.startswith("---")
IsRemovedLine(l) == startswith(l, <<"-">>) /\ ~startswith(l, <<"-", "-", "-">>)

\* sum(1 for l in diff_lines if ...)
CountAdded(ls) == Cardinality({k \in 1..Len(ls) : IsAddedLine(ls[k])})
CountRemoved(ls) == Cardinality({k \in 1..Len(ls) : IsRemovedLine(ls[k])})

FileDiff(rel_path, status, location_a, location_b, added, removed, diff) ==
    [relative_path |-> rel_path, status |-> status,
     location_a |-> location_a, location_b |-> location_b,
     lines_added |-> added, lines_removed |-> removed, diff |-> diff]

\* Mutant: the location of the missing side filled with the joined path.
NoLocation_JoinedPath == <<"joined">>

NoLocation == <<>>
Location(side, p) == <<side, p>>

\* Mutant: the modified status misspelt, so the summary does not count it.
ModifiedStatus_Misspelt == "changed"

\* Status a record gets for a file present on both sides with another digest.
ModifiedStatus == "modified"

\* compare_file(rel_path, path_a, path_b, context_lines), the two paths
\* given as the files they name.
compare_file(rel_path, file_a, file_b, ctx) ==
    LET exists_a == file_a.exists
        exists_b == file_b.exists
        diff_lines == unified_diff(read_lines(file_a), read_lines(file_b), rel_path, ctx)
    IN IF exists_a /\ exists_b THEN
          IF fast_hash(file_a) = fast_hash(file_b) THEN None
          ELSE IF diff_lines = <<>> THEN None
          ELSE FileDiff(rel_path, ModifiedStatus,
                        Location("A", rel_path), Location("B", rel_path),
                        CountAdded(diff_lines), CountRemoved(diff_lines),
                        [k \in 1..Len(diff_lines) |-> rstrip_nl(diff_lines[k])])
       ELSE IF exists_a /\ ~exists_b THEN
          FileDiff(rel_path, "removed", Location("A", rel_path), NoLocation, 0, 0, <<>>)
       ELSE IF ~exists_a /\ exists_b THEN
          FileDiff(rel_path, "added", NoLocation, Location("B", rel_path), 0, 0, <<>>)
       ELSE None

\* ------------------------------------------------------------------ state
VARIABLES
    treeA, treeB,       \* the two directory trees: path -> file
    thread_count,       \* self.thread_count (the spin box)
    is_running, should_cancel, last_report_path,
    run_btn, cancel_btn, open_btn,
    status_label, file_label, progress_bar,
    queue,              \* callbacks posted with root.after(0, ...), oldest first
    disk,               \* the report files under the output directory
    pc,                 \* position of the comparison thread
    files_a, files_b, all_paths, total, threads,
    diffs, diffs_lock, processed,
    unit,               \* per plan index: the future and its worker call
    submitted,          \* futures created so far by the submit loop
    yielded,            \* futures as_completed has handed to the loop
    exc,                \* an exception is propagating out of the with block
    report,             \* the report dict once built
    runs,               \* history: Run clicks so far
    outcome,            \* history: how the current run's worker ended
    compared,           \* history: compare_file calls per path in this run
    faults,             \* history: worker calls that raised in this run
    cancelMidCompare,   \* history: Cancel clicked with a unit still to finish
    cancelDuringWork,   \* history: Cancel clicked before the worker's last step
    pathAtStart,        \* history: last_report_path when the run started
    diskAtStart,        \* history: the report files when the run started
    cmp,                \* the one-path sequential comparison (SpecEngine)
    prog                \* the pool around update_ui alone (SpecProgress)

uiVars == <<is_running, should_cancel, run_btn, cancel_btn, open_btn,
            status_label, file_label, progress_bar>>
inputVars == <<treeA, treeB, thread_count>>
scanVars == <<files_a, files_b, all_paths, total, threads>>
poolVars == <<diffs, diffs_lock, processed, unit, submitted, yielded, exc>>
histVars == <<runs, outcome, compared, faults, cancelMidCompare,
             cancelDuringWork, pathAtStart, diskAtStart>>
\* State of the specifications that exercise one part of the program alone;
\* the run of the application leaves it as it is.
benchVars == <<cmp, prog>>
vars == <<inputVars, uiVars, last_report_path, queue, disk, pc, scanVars,
          poolVars, report, histVars, benchVars>>

Msg(op, text, num) == [op |-> op, text |-> text, num |-> num]
StatusMsg(text) == Msg("status", text, 0)
ProgressMsg(value) == Msg("progress", "", value)
FileMsg(text) == Msg("file", text, 0)
FinishMsg == Msg("finish", "", 0)

\* saw: what the worker's read of should_cancel returned (history).
NoUnit == [st |-> "unsubmitted", saw |-> "unread", tmp |-> 0, p |-> 0,
           result |-> None]

\* Future states: not yet run, run to the end, or cancelled before running.
Finished == {"done", "skipped", "raised", "cancelled"}
Executing == {"check", "compare", "incRead", "incWrite", "readP", "post",
              "lock", "append"}

ExecutingUnits == {i \in DOMAIN unit : unit[i].st \in Executing}
PendingUnits == {i \in DOMAIN unit : unit[i].st = "pending"}

\* sorted(...) of a set of paths.
RECURSIVE Sorted(_)
Sorted(S) ==
    IF S = {} THEN <<>>
    ELSE LET m == CHOOSE x \in S : \A y \in S : x <= y
         IN <<m>> \o Sorted(S \ {m})

\* list.sort(key=lambda d: d.relative_path): a stable insertion sort.
RECURSIVE Insert(_, _)
Insert(d, s) ==
    IF s = <<>> THEN <<d>>
    ELSE IF d.relative_path < Head(s).relative_path THEN <<d>> \o s
    ELSE <<Head(s)>> \o Insert(d, Tail(s))

\* Mutant: the sort left out, the records stay in completion order.
SortByPath_Missing(s) == s

RECURSIVE SortByPath(_)
SortByPath(s) ==
    IF s = <<>> THEN <<>>
    ELSE Insert(s[Len(s)], SortByPath(SubSeq(s, 1, Len(s) - 1)))

\* sum(d.lines_added for d in diffs) and sum(d.lines_removed for d in diffs).
RECURSIVE SumAdded(_)
SumAdded(s) == IF s = <<>> THEN 0 ELSE Head(s).lines_added + SumAdded(Tail(s))

RECURSIVE SumRemoved(_)
SumRemoved(s) == IF s = <<>> THEN 0 ELSE Head(s).lines_removed + SumRemoved(Tail(s))

NoReport == [built |-> FALSE]

Trees == [AllFiles -> FileStates]

\* What a path can be under the two roots: in neither, only in A, only in B,
\* in both with the same bytes, in both with different bytes.
PathPairs == {<<Absent, Absent>>, <<FileX, Absent>>, <<Absent, FileX>>,
              <<FileX, FileX>>, <<FileX, FileXY>>}

TreePairs ==
    {tp \in Trees \X Trees :
        /\ tp[1][ReadmePath] = FileX
        /\ tp[2][ReadmePath] = FileXY
        /\ \A p \in Paths : <<tp[1][p], tp[2][p]>> \in PathPairs}

\* The application after __init__ and _build_ui, before any click.
AppInit ==
    /\ is_running = FALSE
    /\ should_cancel = FALSE
    /\ last_report_path = "None"
    /\ run_btn = "normal"
    /\ cancel_btn = "disabled"
    /\ open_btn = "disabled"
    /\ status_label = "Ready"
    /\ file_label = ""
    /\ progress_bar = 0
    /\ queue = <<>>
    /\ disk = [json |-> NoReport, html |-> NoReport]
    /\ pc = "idle"
    /\ files_a = {}
    /\ files_b = {}
    /\ all_paths = <<>>
    /\ total = 0
    /\ threads = 0
    /\ diffs = <<>>
    /\ diffs_lock = 0
    /\ processed = 0
    /\ unit = <<>>
    /\ submitted = 0
    /\ yielded = {}
    /\ exc = FALSE
    /\ report = NoReport
    /\ runs = 0
    /\ outcome = "none"
    /\ compared = [p \in Paths |-> 0]
    /\ faults = 0
    /\ cancelMidCompare = FALSE
    /\ cancelDuringWork = FALSE
    /\ pathAtStart = "None"
    /\ diskAtStart = [json |-> NoReport, html |-> NoReport]

\* The one-path comparison when it is not in use.
CmpOff == [pc |-> "off"]

\* The pool around update_ui when it is not in use.
ProgOff == [pc |-> "off"]

Init ==
    /\ \E tp \in TreePairs : treeA = tp[1] /\ treeB = tp[2]
    /\ thread_count \in 1..MaxThreads
    /\ AppInit
    /\ cmp = CmpOff
    /\ prog = ProgOff

\* ------------------------------------------------------------- UI thread
Post(msgs) == queue' = queue \o msgs

\* Plan entries whose worker call has not come to an end.
Unfinished == {i \in 1..total : i \notin DOMAIN unit \/ unit[i].st \notin Finished}

InComparePhase == pc \in {"submit", "collect", "join"}

\* Positions of the comparison thread inside _comparison_worker.
WorkPhases == {"begin", "scanA", "checkA", "scanB", "submit", "collect", "join",
               "postCheck", "build", "saveJSON", "saveHTML"}

\* _start_comparison with valid paths (an invalid path shows a message box
\* and returns with nothing changed).  The new thread's frame is fresh.
StartComparison ==
    /\ run_btn = "normal"
    /\ runs < MaxRuns
    /\ is_running' = TRUE
    /\ should_cancel' = FALSE
    /\ run_btn' = "disabled"
    /\ cancel_btn' = "normal"
    /\ open_btn' = "disabled"
    /\ progress_bar' = 0
    /\ status_label' = "Starting"
    /\ file_label' = ""
    /\ pc' = "begin"
    /\ files_a' = {} /\ files_b' = {} /\ all_paths' = <<>> /\ total' = 0
    /\ threads' = 0
    /\ diffs' = <<>> /\ diffs_lock' = 0 /\ processed' = 0 /\ unit' = <<>>
    /\ submitted' = 0 /\ yielded' = {} /\ exc' = FALSE
    /\ report' = NoReport
    /\ runs' = runs + 1
    /\ outcome' = "none"
    /\ compared' = [p \in Paths |-> 0]
    /\ faults' = 0
    /\ cancelMidCompare' = FALSE
    /\ cancelDuringWork' = FALSE
    /\ pathAtStart' = last_report_path
    /\ diskAtStart' = disk
    /\ UNCHANGED <<benchVars, inputVars, last_report_path, queue, disk>>

\* _cancel: the Cancel button's command.
Cancel ==
    /\ cancel_btn = "normal"
    /\ should_cancel' = TRUE
    /\ status_label' = "Cancelling"
    /\ cancelMidCompare' = (cancelMidCompare \/ (InComparePhase /\ Unfinished # {}))
    /\ cancelDuringWork' = (cancelDuringWork \/ pc \in WorkPhases)
    /\ UNCHANGED <<benchVars, inputVars, is_running, run_btn, cancel_btn, open_btn, file_label,
                   progress_bar, last_report_path, queue, disk, pc, scanVars,
                   poolVars, report, runs, outcome, compared, faults,
                   pathAtStart, diskAtStart>>

\* _finish
Finish ==
    /\ is_running' = FALSE
    /\ run_btn' = "normal"
    /\ cancel_btn' = "disabled"
    /\ open_btn' = IF last_report_path # "None" /\ disk.html.built
                   THEN "normal" ELSE open_btn
    /\ UNCHANGED <<status_label, file_label, progress_bar>>

\* The Tk event loop runs the oldest posted callback: _set_status,
\* _set_progress, _set_file or _finish.
UIProcess ==
    /\ queue # <<>>
    /\ LET m == Head(queue)
       IN CASE m.op = "status" ->
                 /\ status_label' = m.text
                 /\ UNCHANGED <<is_running, run_btn, cancel_btn, open_btn,
                                file_label, progress_bar>>
            [] m.op = "progress" ->
                 /\ progress_bar' = m.num
                 /\ UNCHANGED <<is_running, run_btn, cancel_btn, open_btn,
                                file_label, status_label>>
            [] m.op = "file" ->
                 /\ file_label' = m.text
                 /\ UNCHANGED <<is_running, run_btn, cancel_btn, open_btn,
                                status_label, progress_bar>>
            [] m.op = "finish" -> Finish
    /\ queue' = Tail(queue)
    /\ UNCHANGED <<benchVars, inputVars, should_cancel, last_report_path, disk, pc, scanVars,
                   poolVars, report, histVars>>

\* ---------------------------------------------------- comparison thread
threadFrame == <<benchVars, inputVars, uiVars, last_report_path, disk>>

\* _comparison_worker up to the scan of A: reads the spin box, posts the status.
Begin ==
    /\ pc = "begin"
    /\ threads' = thread_count
    /\ Post(<<StatusMsg("ScanningA")>>)
    /\ pc' = "scanA"
    /\ UNCHANGED <<threadFrame, files_a, files_b, all_paths, total, poolVars,
                   report, histVars>>

ScanA ==
    /\ pc = "scanA"
    /\ files_a' = collect_source_files(treeA, DEFAULT_EXTENSIONS)
    /\ pc' = "checkA"
    /\ UNCHANGED <<threadFrame, queue, files_b, all_paths, total, threads,
                   poolVars, report, histVars>>

\* if self.should_cancel: log "Cancelled." and return
CheckA ==
    /\ pc = "checkA"
    /\ IF should_cancel
       THEN /\ pc' = "finally"
            /\ outcome' = "cancelledInScan"
            /\ UNCHANGED queue
       ELSE /\ pc' = "scanB"
            /\ Post(<<StatusMsg("ScanningB")>>)
            /\ UNCHANGED outcome
    /\ UNCHANGED <<threadFrame, scanVars, poolVars, report, runs, compared,
                   faults, cancelMidCompare, cancelDuringWork, pathAtStart,
                   diskAtStart>>

\* Mutant: the two key lists concatenated, a shared path planned twice.
Plan_Concatenated(fa, fb) == Sorted(fa) \o Sorted(fb)

\* all_paths = sorted(set(files_a.keys()) | set(files_b.keys()))
Plan(fa, fb) == Sorted(fa \cup fb)

\* Scan of B, the plan (sorted union of the keys), the empty-plan return, and
\* the set-up of the compare phase.
ScanB ==
    /\ pc = "scanB"
    /\ LET fb == collect_source_files(treeB, DEFAULT_EXTENSIONS)
           plan == Plan(files_a, fb)
       IN /\ files_b' = fb
          /\ all_paths' = plan
          /\ total' = Len(plan)
          /\ IF Len(plan) = 0
             THEN /\ pc' = "finally"
                  /\ outcome' = "noFiles"
                  /\ UNCHANGED <<queue, unit>>
             ELSE /\ pc' = "submit"
                  /\ Post(<<StatusMsg("Comparing")>>)
                  /\ unit' = [i \in 1..Len(plan) |-> NoUnit]
                  /\ UNCHANGED outcome
    /\ UNCHANGED <<threadFrame, files_a, threads, diffs, diffs_lock, processed,
                   submitted, yielded, exc, report, runs, compared, faults,
                   cancelMidCompare, cancelDuringWork, pathAtStart, diskAtStart>>

\* ------------------------------------------------------------ the pool
\* pool.submit(worker, rp) for the next plan entry; after the last one the
\* thread enters the as_completed loop.
Submit ==
    /\ pc = "submit"
    /\ submitted < total
    /\ submitted' = submitted + 1
    /\ unit' = [unit EXCEPT ![submitted + 1].st = "pending"]
    /\ pc' = IF submitted + 1 = total THEN "collect" ELSE "submit"
    /\ UNCHANGED <<threadFrame, queue, scanVars, diffs, diffs_lock, processed,
                   yielded, exc, report, histVars>>

\* Mutant: a pool whose threads never take a unit.
PoolHasFreeThread_Never == FALSE

\* Mutant: a thread per work item, whatever max_workers says.
PoolHasFreeThread_Unbounded == TRUE

\* ThreadPoolExecutor(max_workers=threads): a pool thread is free to take the
\* oldest queued work item.
PoolHasFreeThread == Cardinality(ExecutingUnits) < threads

StartUnit(i) ==
    /\ unit[i].st = "pending"
    /\ \A j \in PendingUnits : i <= j
    /\ PoolHasFreeThread
    /\ unit' = [unit EXCEPT ![i].st = "check"]
    /\ UNCHANGED <<threadFrame, queue, pc, scanVars, diffs, diffs_lock, processed,
                   submitted, yielded, exc, report, histVars>>

\* Mutant: the worker does not test the flag.
CancelSeen_Never(flag) == FALSE

\* Mutant: the test inverted, the worker returns when the flag is clear.
CancelSeen_Inverted(flag) == ~flag

\* The test of "if self.should_cancel: return" on the value read.
CancelSeen(flag) == flag

\* worker: if self.should_cancel: return
WorkerCheck(i) ==
    /\ unit[i].st = "check"
    /\ unit' = [unit EXCEPT
                  ![i].saw = IF should_cancel THEN "set" ELSE "clear",
                  ![i].st = IF CancelSeen(should_cancel) THEN "skipped" ELSE "compare"]
    /\ UNCHANGED <<threadFrame, queue, pc, scanVars, diffs, diffs_lock, processed,
                   submitted, yielded, exc, report, histVars>>

\* worker: result = compare_file(rel_path, path_a, path_b, ctx), which returns
\* or, at most MaxFaults times in a run, raises.
WorkerCompare(i) ==
    /\ unit[i].st = "compare"
    /\ LET rp == all_paths[i]
       IN /\ compared' = [compared EXCEPT ![rp] = @ + 1]
          /\ \/ /\ unit' = [unit EXCEPT
                              ![i].st = "incRead",
                              ![i].result = compare_file(rp, treeA[rp], treeB[rp],
                                                         context_lines)]
                /\ UNCHANGED faults
             \/ /\ faults < MaxFaults
                /\ faults' = faults + 1
                /\ unit' = [unit EXCEPT ![i].st = "raised"]
    /\ UNCHANGED <<threadFrame, queue, pc, scanVars, diffs, diffs_lock, processed,
                   submitted, yielded, exc, report, runs, outcome, cancelMidCompare,
                   cancelDuringWork, pathAtStart, diskAtStart>>

\* update_ui: processed[0] += 1 is a load ...
WorkerIncRead(i) ==
    /\ unit[i].st = "incRead"
    /\ unit' = [unit EXCEPT ![i].st = "incWrite", ![i].tmp = processed]
    /\ UNCHANGED <<threadFrame, queue, pc, scanVars, diffs, diffs_lock, processed,
                   submitted, yielded, exc, report, histVars>>

\* ... and a store
WorkerIncWrite(i) ==
    /\ unit[i].st = "incWrite"
    /\ processed' = unit[i].tmp + 1
    /\ unit' = [unit EXCEPT ![i].st = "readP"]
    /\ UNCHANGED <<threadFrame, queue, pc, scanVars, diffs, diffs_lock,
                   submitted, yielded, exc, report, histVars>>

\* Mutant: the throttle left out, every call posts.
Throttle_Always(p, tot) == TRUE

\* if p % 50 == 0 or p == total
Throttle(p, tot) == p % BatchSize = 0 \/ p = tot

AfterUpdate(i) == IF unit[i].result # None THEN "lock" ELSE "done"

\* update_ui: p = processed[0] and the throttle test
WorkerReadP(i) ==
    /\ unit[i].st = "readP"
    /\ unit' = [unit EXCEPT
                  ![i].p = processed,
                  ![i].st = IF Throttle(processed, total) THEN "post"
                            ELSE AfterUpdate(i)]
    /\ UNCHANGED <<threadFrame, queue, pc, scanVars, diffs, diffs_lock, processed,
                   submitted, yielded, exc, report, histVars>>

\* pct = (p / total) * 100, in whole percents
Pct(p, tot) == (p * 100) \div tot

\* update_ui: the three root.after posts
WorkerPost(i) ==
    /\ unit[i].st = "post"
    /\ Post(<<ProgressMsg(Pct(unit[i].p, total)), StatusMsg("Comparing"),
              FileMsg(ToString(all_paths[i]))>>)
    /\ unit' = [unit EXCEPT ![i].st = AfterUpdate(i)]
    /\ UNCHANGED <<threadFrame, pc, scanVars, diffs, diffs_lock, processed,
                   submitted, yielded, exc, report, histVars>>

\* Mutant: the append section entered without taking the lock.
LockIsFree_NoLock == TRUE

\* with diffs_lock: entry blocks while another worker holds the lock
LockIsFree == diffs_lock = 0

WorkerLock(i) ==
    /\ unit[i].st = "lock"
    /\ LockIsFree
    /\ diffs_lock' = i
    /\ unit' = [unit EXCEPT ![i].st = "append"]
    /\ UNCHANGED <<threadFrame, queue, pc, scanVars, diffs, processed,
                   submitted, yielded, exc, report, histVars>>

\* diffs.append(result) and the release at the end of the with block
WorkerAppend(i) ==
    /\ unit[i].st = "append"
    /\ diffs' = Append(diffs, unit[i].result)
    /\ diffs_lock' = 0
    /\ unit' = [unit EXCEPT ![i].st = "done"]
    /\ UNCHANGED <<threadFrame, queue, pc, scanVars, processed,
                   submitted, yielded, exc, report, histVars>>

\* One turn of "for f in as_completed(futures)": a finished future is handed
\* over; the loop shuts the pool down and breaks when the flag is set, else
\* f.result() returns or re-raises the worker's exception.
Collect(i) ==
    /\ pc = "collect"
    /\ unit[i].st \in Finished
    /\ i \notin yielded
    /\ IF should_cancel
       THEN /\ unit' = [j \in DOMAIN unit |->
                          IF unit[j].st = "pending"
                          THEN [unit[j] EXCEPT !.st = "cancelled"] ELSE unit[j]]
            /\ pc' = "join"
            /\ UNCHANGED <<yielded, exc>>
       ELSE IF unit[i].st = "raised"
       THEN /\ exc' = TRUE
            /\ pc' = "join"
            /\ UNCHANGED <<yielded, unit>>
       ELSE /\ yielded' = yielded \cup {i}
            /\ pc' = IF yielded \cup {i} = 1..total THEN "join" ELSE "collect"
            /\ UNCHANGED <<exc, unit>>
    /\ UNCHANGED <<threadFrame, queue, scanVars, diffs, diffs_lock, processed,
                   submitted, report, histVars>>

\* shutdown(wait=True) returns once the pool threads have run every queued
\* work item and ended.
\* Mutant: the with block left without waiting for the pool's threads.
PoolJoined_NoWait == TRUE

PoolJoined == ExecutingUnits = {} /\ PendingUnits = {}

\* End of the with block.
Join ==
    /\ pc = "join"
    /\ PoolJoined
    /\ pc' = IF exc THEN "except" ELSE "postCheck"
    /\ UNCHANGED <<threadFrame, queue, scanVars, poolVars, report, histVars>>

\* ------------------------------------------------- after the compare phase
\* if self.should_cancel: status "Cancelled", return; else progress 100
PostCheck ==
    /\ pc = "postCheck"
    /\ IF should_cancel
       THEN /\ Post(<<StatusMsg("Cancelled")>>)
            /\ outcome' = "cancelled"
            /\ pc' = "finally"
       ELSE /\ Post(<<ProgressMsg(100)>>)
            /\ pc' = "build"
            /\ UNCHANGED outcome
    /\ UNCHANGED <<threadFrame, scanVars, poolVars, report, runs, compared,
                   faults, cancelMidCompare, cancelDuringWork, pathAtStart,
                   diskAtStart>>

CountStatus(ds, st) == Cardinality({k \in 1..Len(ds) : ds[k].status = st})

\* Mutant: the scanned total taken from the records instead of the plan.
Summary_TotalFromRecords(tot, ds) ==
    [engine_a |-> "A", engine_b |-> "B",
     total_files_scanned |-> Len(ds),
     files_modified |-> CountStatus(ds, "modified"),
     files_added |-> CountStatus(ds, "added"),
     files_removed |-> CountStatus(ds, "removed"),
     total_lines_added |-> SumAdded(ds),
     total_lines_removed |-> SumRemoved(ds)]

\* The summary dict.
Summary(tot, ds) ==
    [engine_a |-> "A", engine_b |-> "B",
     total_files_scanned |-> tot,
     files_modified |-> CountStatus(ds, "modified"),
     files_added |-> CountStatus(ds, "added"),
     files_removed |-> CountStatus(ds, "removed"),
     total_lines_added |-> SumAdded(ds),
     total_lines_removed |-> SumRemoved(ds)]

\* report = {"summary": summary, "differences": [asdict(d) for d in diffs]}
MakeReport(tot, ds) ==
    [built |-> TRUE, summary |-> Summary(tot, ds), differences |-> ds]

\* diffs.sort(...), the summary and the report dict
Build ==
    /\ pc = "build"
    /\ diffs' = SortByPath(diffs)
    /\ report' = MakeReport(total, SortByPath(diffs))
    /\ Post(<<StatusMsg("SavingJSON")>>)
    /\ pc' = "saveJSON"
    /\ UNCHANGED <<threadFrame, scanVars, diffs_lock, processed, unit, submitted,
                   yielded, exc, histVars>>

\* json.dump(report, f) into ue_diff_report.json
SaveJSON ==
    /\ pc = "saveJSON"
    /\ disk' = [disk EXCEPT !.json = report]
    /\ Post(<<StatusMsg("BuildingHTML")>>)
    /\ pc' = "saveHTML"
    /\ UNCHANGED <<benchVars, inputVars, uiVars, last_report_path, scanVars, poolVars,
                   report, histVars>>

\* build_html_report: the page carries the report's data.
build_html_report(r) == [built |-> TRUE, page |-> r]

\* The HTML file is written, last_report_path set, the final status posted.
SaveHTML ==
    /\ pc = "saveHTML"
    /\ disk' = [disk EXCEPT !.html = build_html_report(report)]
    /\ last_report_path' = "ue_diff_report.html"
    /\ Post(<<StatusMsg("Done"), FileMsg("")>>)
    /\ outcome' = "done"
    /\ pc' = "finally"
    /\ UNCHANGED <<benchVars, inputVars, uiVars, scanVars, poolVars, report, runs, compared,
                   faults, cancelMidCompare, cancelDuringWork, pathAtStart,
                   diskAtStart>>

\* _run_comparison_thread: except Exception -> status "Failed: ..."
Except ==
    /\ pc = "except"
    /\ Post(<<StatusMsg("Failed")>>)
    /\ outcome' = "failed"
    /\ pc' = "finally"
    /\ UNCHANGED <<threadFrame, scanVars, poolVars, report, runs, compared,
                   faults, cancelMidCompare, cancelDuringWork, pathAtStart,
                   diskAtStart>>

\* _run_comparison_thread: finally -> root.after(0, self._finish)
Finally ==
    /\ pc = "finally"
    /\ Post(<<FinishMsg>>)
    /\ pc' = "returned"
    /\ UNCHANGED <<threadFrame, scanVars, poolVars, report, histVars>>

Next ==
    \/ StartComparison
    \/ Cancel
    \/ UIProcess
    \/ Begin
    \/ ScanA
    \/ CheckA
    \/ ScanB
    \/ Submit
    \/ \E i \in DOMAIN unit : StartUnit(i)
    \/ \E i \in DOMAIN unit : WorkerCheck(i)
    \/ \E i \in DOMAIN unit : WorkerCompare(i)
    \/ \E i \in DOMAIN unit : WorkerIncRead(i)
    \/ \E i \in DOMAIN unit : WorkerIncWrite(i)
    \/ \E i \in DOMAIN unit : WorkerReadP(i)
    \/ \E i \in DOMAIN unit : WorkerPost(i)
    \/ \E i \in DOMAIN unit : WorkerLock(i)
    \/ \E i \in DOMAIN unit : WorkerAppend(i)
    \/ \E i \in DOMAIN unit : Collect(i)
    \/ Join
    \/ PostCheck
    \/ Build
    \/ SaveJSON
    \/ SaveHTML
    \/ Except
    \/ Finally

Spec == Init /\ [][Next]_vars

\* The steps of the comparison thread and of the pool's threads.
ThreadStep ==
    \/ Begin \/ ScanA \/ CheckA \/ ScanB \/ Submit
    \/ \E i \in DOMAIN unit : Collect(i)
    \/ Join \/ PostCheck \/ Build \/ SaveJSON \/ SaveHTML \/ Except \/ Finally

PoolStep ==
    \E i \in DOMAIN unit :
       \/ StartUnit(i) \/ WorkerCheck(i) \/ WorkerCompare(i)
       \/ WorkerIncRead(i) \/ WorkerIncWrite(i) \/ WorkerReadP(i)
       \/ WorkerPost(i) \/ WorkerLock(i) \/ WorkerAppend(i)

\* Every step that is not a click of the user.
SystemStep == UIProcess \/ ThreadStep \/ PoolStep

\* One run from its Run click to the end.  Every run starts from the state
\* _start_comparison resets, so one run stands for each.
StartOnce == runs = 0 /\ StartComparison

NextLive == StartOnce \/ Cancel \/ SystemStep

\* The trees with at most one source path, and the tree with every source
\* path modified compared by the largest pool.
InitLive ==
    /\ Init
    /\ \/ \A p \in Paths \ {1} : treeA[p] = Absent /\ treeB[p] = Absent
       \/ /\ \A p \in Paths : treeA[p] = FileX /\ treeB[p] = FileXY
          /\ thread_count = MaxThreads

\* The run under the scheduling the platform gives: while some thread can
\* take a step or a callback posted with root.after is waiting, one of them
\* is eventually run.  The user's clicks are under no obligation.
SpecLive == InitLive /\ [][NextLive]_vars /\ WF_vars(SystemStep)

\* ------------------------------------------- the engine on one plan entry
\* One path taken through the worker and the report in sequence, with no
\* other thread: result = compare_file(...), diffs.append(result) if there
\* is one, then the sort, the summary and the report dict.  The two files
\* range over every text of up to MaxLines lines, readable or not.
MaxLines == 2       \* lines of a file

\* Lines whose own text begins with the diff's marker characters.
LinePP == <<"+", "+", "z", "\n">>
LineMM == <<"-", "-", "w", "\n">>

EngineLines == {LineX, LineY, LinePP, LineMM}

Texts == UNION {[1..n -> EngineLines] : n \in 0..MaxLines}

EngineFiles ==
    {Absent} \cup
    {[exists |-> TRUE, readable |-> r, lines |-> t, crlf |-> c] :
        r \in BOOLEAN, t \in Texts, c \in BOOLEAN}

appVars == <<inputVars, uiVars, last_report_path, queue, disk, pc, scanVars,
             poolVars, report, histVars>>

InitEngine ==
    /\ treeA = [p \in AllFiles |-> Absent]
    /\ treeB = [p \in AllFiles |-> Absent]
    /\ thread_count = 1
    /\ AppInit
    /\ \E rp \in Paths, fa \in EngineFiles, fb \in EngineFiles :
          cmp = [pc |-> "call", rel_path |-> rp, file_a |-> fa, file_b |-> fb,
                 result |-> None, diffs |-> <<>>, report |-> NoReport]
    /\ prog = ProgOff

\* result = compare_file(rel_path, path_a, path_b, ctx)
EngineCompare ==
    /\ cmp.pc = "call"
    /\ cmp' = [cmp EXCEPT !.pc = "append",
                          !.result = compare_file(cmp.rel_path, cmp.file_a,
                                                  cmp.file_b, context_lines)]
    /\ UNCHANGED <<appVars, prog>>

\* if result: with diffs_lock: diffs.append(result)
EngineAppend ==
    /\ cmp.pc = "append"
    /\ cmp' = [cmp EXCEPT !.pc = "build",
                          !.diffs = IF cmp.result # None
                                    THEN Append(cmp.diffs, cmp.result)
                                    ELSE cmp.diffs]
    /\ UNCHANGED <<appVars, prog>>

\* diffs.sort(...), the summary and the report dict, for a plan of one path
EngineBuild ==
    /\ cmp.pc = "build"
    /\ cmp' = [cmp EXCEPT !.pc = "built",
                          !.diffs = SortByPath(cmp.diffs),
                          !.report = MakeReport(1, SortByPath(cmp.diffs))]
    /\ UNCHANGED <<appVars, prog>>

NextEngine == EngineCompare \/ EngineAppend \/ EngineBuild

SpecEngine == InitEngine /\ [][NextEngine]_vars

\* ------------------------------------------------------------ properties
\* The comparison thread has left the with block (the pool is joined).
PostJoin == {"postCheck", "except", "build", "saveJSON", "saveHTML", "finally",
             "returned"}

RunReturned == pc = "returned"

PathOf(i) == all_paths[i]

RecordsOf(ds, rp) == {k \in 1..Len(ds) : ds[k].relative_path = rp}

\* The records a sequential pass over the plan gives: compare_file on every
\* path of the sorted union, the None results left out.
RECURSIVE ExpectedRecords(_)
ExpectedRecords(paths) ==
    IF paths = <<>> THEN <<>>
    ELSE LET r == compare_file(Head(paths), treeA[Head(paths)], treeB[Head(paths)],
                               context_lines)
         IN (IF r = None THEN <<>> ELSE <<r>>) \o ExpectedRecords(Tail(paths))

KeyUnion == collect_source_files(treeA, DEFAULT_EXTENSIONS)
            \cup collect_source_files(treeB, DEFAULT_EXTENSIONS)

\* C1: if Cancel is clicked in the compare phase while a plan entry's worker
\* has not come to an end, the worker ends by posting the status "Cancelled",
\* builds no report, writes neither file and leaves last_report_path alone.
C1_CancelMidCompareEndsCancelled ==
    (RunReturned /\ cancelMidCompare) =>
        /\ outcome = "cancelled"
        /\ ~report.built
        /\ disk = diskAtStart
        /\ last_report_path = pathAtStart

\* C2: a run in which Cancel was clicked while the worker was still at work
\* (scan, compare, report building or saving) does not end as a successful
\* run with a report written.
C2_CancelledRunNeverDone ==
    (RunReturned /\ cancelDuringWork) =>
        /\ outcome # "done"
        /\ ~report.built

\* C3: a unit compares only after its read of the flag; a unit that read the
\* flag as set does no comparison, no progress update and no append; once the
\* with block is left every unit that read the flag as clear has run to its
\* end (its record appended); after the loop broke on the flag no future is
\* left queued, and a cancelled future never ran.
C3_UnitsObeyCancellation ==
    \A i \in DOMAIN unit :
        /\ unit[i].st \in {"unsubmitted", "pending", "check", "cancelled"} =>
              /\ unit[i].saw = "unread"
              /\ unit[i].result = None
        /\ unit[i].st \in (Executing \ {"check"}) \cup {"done", "raised"} =>
              unit[i].saw = "clear"
        /\ unit[i].saw = "set" =>
              /\ unit[i].st = "skipped"
              /\ unit[i].result = None
              /\ unit[i].tmp = 0 /\ unit[i].p = 0
        /\ unit[i].saw # "clear" =>
              /\ compared[PathOf(i)] = 0
              /\ RecordsOf(diffs, PathOf(i)) = {}
        /\ pc \in PostJoin =>
              /\ unit[i].st \in Finished
              /\ (unit[i].st = "done" /\ unit[i].result # None) =>
                    \E k \in 1..Len(diffs) : diffs[k] = unit[i].result
        /\ (pc \in {"join"} \cup PostJoin /\ ~exc /\ yielded # 1..total) =>
              unit[i].st # "pending"

\* C3 witness: the pool is joined after a cancellation with one unit that ran
\* to its end, having read the flag as clear, and one that was skipped or
\* cancelled.
C3_Witness ==
    /\ pc = "postCheck"
    /\ should_cancel
    /\ \E i, j \in DOMAIN unit :
          /\ unit[i].st = "done" /\ unit[i].result # None
          /\ unit[j].st \in {"skipped", "cancelled"}

\* C4: when a report is built, compare_file has been called exactly once for
\* every plan entry and never for another path, and the report holds at most
\* one record per path, each for a path of the plan.
C4_OnceForEveryPlanEntry ==
    report.built =>
        /\ \A i \in 1..total : Cardinality({j \in 1..total : PathOf(j) = PathOf(i)}) = 1
        /\ \A rp \in Paths :
              compared[rp] = IF \E i \in 1..total : PathOf(i) = rp THEN 1 ELSE 0
        /\ \A k \in 1..Len(report.differences) :
              /\ \E i \in 1..total : PathOf(i) = report.differences[k].relative_path
              /\ Cardinality(RecordsOf(report.differences,
                                       report.differences[k].relative_path)) = 1

\* C4 witness: a report built from a plan of two entries, one of which gave
\* no record.
C4_Witness ==
    /\ report.built
    /\ total = 2
    /\ Len(report.differences) = 1

\* C5: when a worker call raised and nobody cancelled, the run still ends
\* with a report that holds the records of the other plan entries.
C5_ExceptionDoesNotAbort ==
    (RunReturned /\ faults > 0 /\ ~should_cancel) =>
        /\ outcome = "done"
        /\ report.built
        /\ \A i \in 1..total :
              (unit[i].st = "done" /\ unit[i].result # None) =>
                 \E k \in 1..Len(report.differences) :
                    report.differences[k] = unit[i].result

\* C6: at most threads worker calls are between their cancellation check and
\* their return.
C6_AtMostKExecuting == Cardinality(ExecutingUnits) <= threads

\* C6 witness: the pool is full and a queued entry waits for a free thread.
C6_Witness ==
    /\ Cardinality(ExecutingUnits) = threads
    /\ PendingUnits # {}

InAppendSection == {i \in DOMAIN unit : unit[i].st = "append"}

\* The units of the run that returned a record.
UnitsWithRecord == {i \in DOMAIN unit : unit[i].st = "done" /\ unit[i].result # None}

\* C7: at most one worker is in the append section, and it holds the lock;
\* when the pool is joined and no unit was skipped or cancelled, the list
\* holds the record of every unit that returned one, once each, and nothing
\* else.
C7_AppendsUnderOneLock ==
    /\ Cardinality(InAppendSection) <= 1
    /\ \A i \in InAppendSection : diffs_lock = i
    /\ (pc \in PostJoin /\ \A i \in DOMAIN unit : unit[i].st \in {"done", "raised"}) =>
          /\ Len(diffs) = Cardinality(UnitsWithRecord)
          /\ \A i \in UnitsWithRecord :
                /\ unit[i].result = compare_file(PathOf(i), treeA[PathOf(i)],
                                                 treeB[PathOf(i)], context_lines)
                /\ Cardinality({k \in 1..Len(diffs) : diffs[k] = unit[i].result}) = 1

\* C7 witness: two workers ran side by side, one waited at the lock while the
\* other was in the section, and the joined pool left two records in the list
\* in the reverse of the plan's order.
C7_Witness ==
    /\ pc = "postCheck"
    /\ ~should_cancel
    /\ Len(diffs) = 2
    /\ diffs[1].relative_path > diffs[2].relative_path

\* C8: in every report built, files_modified + files_added + files_removed is
\* the number of records of the differences list.
C8_StatusCountsAddUp ==
    report.built =>
        report.summary.files_modified + report.summary.files_added
           + report.summary.files_removed = Len(report.differences)

\* C8 witness: a report with a modified record and an added or removed one.
C8_Witness ==
    /\ report.built
    /\ report.summary.files_modified = 1
    /\ report.summary.files_added + report.summary.files_removed = 1

\* C9: in every report built, total_files_scanned is the size of the union of
\* the two path indexes' keys, which is the size of the plan.
C9_TotalIsUnionSize ==
    report.built =>
        /\ report.summary.total_files_scanned = Cardinality(files_a \cup files_b)
        /\ report.summary.total_files_scanned = Cardinality(KeyUnion)
        /\ report.summary.total_files_scanned = Len(all_paths)

\* C9 witness: a report over trees that share a path, each also holding a
\* file that is not a source file.
C9_Witness ==
    /\ report.built
    /\ files_a \cap files_b # {}
    /\ files_a # files_b
    /\ report.summary.total_files_scanned = 2

\* C10: whatever the interleaving of the workers and the thread count, a
\* report that is built is the one a sequential pass over the sorted union
\* gives: the records in strictly ascending path order and the summary
\* computed from them; so is the JSON file a run leaves behind.
C10_ReportIsDeterministic ==
    /\ report.built =>
          /\ report.differences = ExpectedRecords(Sorted(KeyUnion))
          /\ report.summary = Summary(Cardinality(KeyUnion),
                                      ExpectedRecords(Sorted(KeyUnion)))
          /\ \A k \in 1..(Len(report.differences) - 1) :
                report.differences[k].relative_path
                   < report.differences[k + 1].relative_path
    /\ disk.json.built => disk.json = MakeReport(Cardinality(KeyUnion),
                                                 ExpectedRecords(Sorted(KeyUnion)))

\* C10 witness: a second run with two threads builds again the report of two
\* records that the first run saved.
C10_Witness ==
    /\ runs = 2
    /\ threads = 2
    /\ report.built
    /\ Len(report.differences) = 2
    /\ diskAtStart.json = report

\* --------------------------------------------- the pool around update_ui
\* The compare phase of a run that is not cancelled and in which no call
\* raises, reduced to what update_ui touches: the pool threads take the plan
\* entries in order, each call increments and reads the shared counter and
\* posts when the throttle lets it, and the Tk loop applies the callbacks.
\* The plan has BatchSize..BatchSize+MaxOver entries, so that a count which
\* is a multiple of BatchSize and the final count both occur.  The state
\* space starts where the first BatchSize-MaxBefore entries have gone through
\* one after the other: the counter stands at their number and, no count
\* having passed the throttle yet, nothing has been posted.
MaxOver == 1        \* plan entries beyond BatchSize
MaxBefore == 2      \* entries still to go before the BatchSize-th

IdleThread == [st |-> "idle", item |-> 0, tmp |-> 0, p |-> 0]

InitProgress ==
    /\ treeA = [p \in AllFiles |-> Absent]
    /\ treeB = [p \in AllFiles |-> Absent]
    /\ thread_count \in 1..MaxThreads
    /\ AppInit
    /\ cmp = CmpOff
    /\ \E tot \in BatchSize..(BatchSize + MaxOver), k \in 1..MaxThreads :
          /\ k = thread_count
          /\ prog = [pc |-> "pool", total |-> tot, threads |-> k,
                     next |-> BatchSize - MaxBefore,
                     processed |-> BatchSize - MaxBefore,
                     w |-> [t \in 1..k |-> IdleThread],
                     queue |-> <<>>, bar |-> 0,
                     high |-> 0,        \* history: highest value the bar had
                     posted |-> {}]     \* history: counts whose observer posted

\* A pool thread takes the next plan entry and runs worker down to the call
\* of update_ui (should_cancel is clear, compare_file returns).
ProgTake(t) ==
    /\ prog.pc = "pool"
    /\ prog.w[t].st = "idle"
    /\ prog.next < prog.total
    /\ prog' = [prog EXCEPT !.next = prog.next + 1,
                            !.w[t] = [IdleThread EXCEPT !.st = "incRead",
                                                        !.item = prog.next + 1]]
    /\ UNCHANGED <<appVars, cmp>>

\* processed[0] += 1, the load
ProgIncRead(t) ==
    /\ prog.w[t].st = "incRead"
    /\ prog' = [prog EXCEPT !.w[t].tmp = prog.processed, !.w[t].st = "incWrite"]
    /\ UNCHANGED <<appVars, cmp>>

\* processed[0] += 1, the store
ProgIncWrite(t) ==
    /\ prog.w[t].st = "incWrite"
    /\ prog' = [prog EXCEPT !.processed = prog.w[t].tmp + 1, !.w[t].st = "readP"]
    /\ UNCHANGED <<appVars, cmp>>

\* p = processed[0]; if p % 50 == 0 or p == total
ProgReadP(t) ==
    /\ prog.w[t].st = "readP"
    /\ prog' = [prog EXCEPT !.w[t].p = prog.processed,
                            !.w[t].st = IF Throttle(prog.processed, prog.total)
                                        THEN "post" ELSE "idle"]
    /\ UNCHANGED <<appVars, cmp>>

\* the three root.after calls of update_ui
ProgPost(t) ==
    /\ prog.w[t].st = "post"
    /\ prog' = [prog EXCEPT
                  !.queue = prog.queue \o
                            <<ProgressMsg(Pct(prog.w[t].p, prog.total)),
                              Msg("status", "Comparing", prog.w[t].p),
                              FileMsg(ToString(prog.w[t].item))>>,
                  !.posted = prog.posted \cup {prog.w[t].p},
                  !.w[t].st = "idle"]
    /\ UNCHANGED <<appVars, cmp>>

\* The with block ends when every call has returned; should_cancel is clear,
\* so the thread posts _set_progress(100).
ProgJoin ==
    /\ prog.pc = "pool"
    /\ prog.next = prog.total
    /\ \A t \in DOMAIN prog.w : prog.w[t].st = "idle"
    /\ prog' = [prog EXCEPT !.queue = Append(prog.queue, ProgressMsg(100)),
                            !.pc = "joined"]
    /\ UNCHANGED <<appVars, cmp>>

\* The Tk loop runs the oldest callback; _set_progress sets the bar.
ProgApply ==
    /\ prog.pc # "off"
    /\ prog.queue # <<>>
    /\ LET m == Head(prog.queue)
       IN prog' = [prog EXCEPT
                     !.queue = Tail(prog.queue),
                     !.bar = IF m.op = "progress" THEN m.num ELSE prog.bar,
                     !.high = IF m.op = "progress" /\ m.num > prog.high
                              THEN m.num ELSE prog.high]
    /\ UNCHANGED <<appVars, cmp>>

NextProgress ==
    \/ \E t \in DOMAIN prog.w :
          \/ ProgTake(t)
          \/ ProgIncRead(t)
          \/ ProgIncWrite(t)
          \/ ProgReadP(t)
          \/ ProgPost(t)
    \/ ProgJoin
    \/ ProgApply

SpecProgress == InitProgress /\ [][NextProgress]_vars

\* ------------------------------------------------- properties of the engine
EngineCalled == cmp.pc \in {"append", "build", "built"}
BothExist == cmp.pc # "off" /\ cmp.file_a.exists /\ cmp.file_b.exists
BothReadable == cmp.pc # "off" /\ cmp.file_a.readable /\ cmp.file_b.readable

\* C11: a path whose files exist on both sides, at least one of which cannot
\* be read, and whose contents differ, is not classified Unchanged: the
\* comparison returns a record for it.
C11_UnreadableNeverUnchanged ==
    (/\ EngineCalled
     /\ BothExist
     /\ ~BothReadable
     /\ Bytes(cmp.file_a) # Bytes(cmp.file_b))
    => cmp.result # None

\* Lines of a diff after its two file headers that start with the marker.
MarkedAfterHeaders(d, ch) == {k \in 3..Len(d) : startswith(d[k], <<ch>>)}

\* C12: in a modified record lines_added is the number of diff lines that
\* start with '+' and lines_removed the number that start with '-', the two
\* file headers (the first two lines) excluded by their position and every
\* other such line counted, whatever its own text begins with (both files
\* readable).
C12_CountsExcludeOnlyHeaders ==
    (/\ EngineCalled
     /\ BothReadable
     /\ cmp.result # None
     /\ cmp.result.status = "modified")
    => /\ cmp.result.lines_added
             = Cardinality(MarkedAfterHeaders(cmp.result.diff, "+"))
       /\ cmp.result.lines_removed
             = Cardinality(MarkedAfterHeaders(cmp.result.diff, "-"))

\* C13: a path present only under A gives a "removed" record with location_a
\* set and location_b absent, a path present only under B an "added" record
\* with location_b set and location_a absent; both with zero line counts and
\* an empty diff, whether or not the file can be read.
C13_OneSidedRecords ==
    EngineCalled =>
       /\ (cmp.file_a.exists /\ ~cmp.file_b.exists) =>
             cmp.result = [relative_path |-> cmp.rel_path, status |-> "removed",
                           location_a |-> <<"A", cmp.rel_path>>,
                           location_b |-> <<>>,
                           lines_added |-> 0, lines_removed |-> 0, diff |-> <<>>]
       /\ (~cmp.file_a.exists /\ cmp.file_b.exists) =>
             cmp.result = [relative_path |-> cmp.rel_path, status |-> "added",
                           location_a |-> <<>>,
                           location_b |-> <<"B", cmp.rel_path>>,
                           lines_added |-> 0, lines_removed |-> 0, diff |-> <<>>]

\* C13 witness: an unreadable two-line file present only under B has been
\* reported as added.
C13_Witness ==
    /\ cmp.pc = "built"
    /\ ~cmp.file_a.exists
    /\ cmp.file_b.exists
    /\ ~cmp.file_b.readable
    /\ Len(cmp.file_b.lines) = 2
    /\ cmp.report.summary.files_added = 1
    /\ cmp.report.differences[1].location_a = <<>>

\* C14: two readable files with the same bytes give no record: the path is
\* counted in total_files_scanned and appears neither in the differences nor
\* in any other counter of the summary.
C14_IdenticalFilesLeaveNoRecord ==
    (BothExist /\ BothReadable /\ Bytes(cmp.file_a) = Bytes(cmp.file_b)) =>
       /\ EngineCalled => cmp.result = None
       /\ cmp.pc \in {"build", "built"} => cmp.diffs = <<>>
       /\ cmp.pc = "built" =>
             /\ cmp.report.differences = <<>>
             /\ cmp.report.summary.total_files_scanned = 1
             /\ cmp.report.summary.files_modified = 0
             /\ cmp.report.summary.files_added = 0
             /\ cmp.report.summary.files_removed = 0
             /\ cmp.report.summary.total_lines_added = 0
             /\ cmp.report.summary.total_lines_removed = 0

\* C14 witness: the report of a path whose two files hold the same two lines
\* with "\r\n" line endings.
C14_Witness ==
    /\ cmp.pc = "built"
    /\ BothExist
    /\ BothReadable
    /\ cmp.file_a.crlf
    /\ Len(cmp.file_a.lines) = 2
    /\ Bytes(cmp.file_a) = Bytes(cmp.file_b)
    /\ cmp.report.summary.total_files_scanned = 1
    /\ cmp.report.differences = <<>>

\* ----------------------------------------------- properties of update_ui
\* C15: in the compare phase only a call that observed a processed count
\* which is a multiple of 50, or equal to total, posts the progress
\* notification (progress value, status text with the count, current path);
\* a call that observed any other count posts nothing.
C15_OnlyThrottledCountsPost ==
    prog.pc # "off" =>
       /\ \A p \in prog.posted : p % 50 = 0 \/ p = prog.total
       /\ \A t \in DOMAIN prog.w :
             prog.w[t].st = "post" =>
                (prog.w[t].p % 50 = 0 \/ prog.w[t].p = prog.total)
       /\ \A k \in 1..Len(prog.queue) :
             prog.queue[k].op = "status" =>
                (prog.queue[k].num % 50 = 0 \/ prog.queue[k].num = prog.total)

\* C15 witness: a plan of 51 entries has been joined; the calls that observed
\* 50 and 51 posted and no other did, among them one that observed 49.
C15_Witness ==
    /\ prog.pc = "joined"
    /\ prog.total = BatchSize + 1
    /\ prog.posted = {BatchSize, BatchSize + 1}
    /\ \E t \in DOMAIN prog.w : prog.w[t].item = BatchSize + 1 /\ prog.w[t].p = BatchSize + 1

\* C16: with two or more pool threads, once every unit of a run that was not
\* cancelled has finished, the processed counter equals the plan size and
\* every count 1..total was observed by exactly one unit, so the notification
\* for the final count was posted exactly once.
C16_CounterIsExact ==
    (/\ pc \in PostJoin
     /\ threads >= 2
     /\ ~should_cancel
     /\ \A i \in DOMAIN unit : unit[i].st = "done")
    => /\ processed = total
       /\ \A v \in 1..total :
             Cardinality({i \in DOMAIN unit : unit[i].p = v}) = 1

\* C20: within a run the values applied to the progress bar never decrease
\* and never exceed 100, whatever the interleaving of the workers.
C20_ProgressNeverRegresses ==
    prog.pc # "off" => (prog.bar = prog.high /\ prog.bar <= 100)

\* ------------------------------------------------- properties of the run
\* C17: every started run eventually reaches _finish, whether it completes,
\* is cancelled, finds no files or raises; _finish leaves is_running false,
\* the Run button enabled and the Cancel button disabled.
C17_EveryRunFinishes ==
    is_running ~> (/\ ~is_running
                   /\ run_btn = "normal"
                   /\ cancel_btn = "disabled"
                   /\ pc = "returned")

\* C17 witness: a run in which a worker raised has been finished.
C17_Witness ==
    /\ runs = 1
    /\ outcome = "failed"
    /\ pc = "returned"
    /\ queue = <<>>
    /\ ~is_running
    /\ run_btn = "normal"
    /\ cancel_btn = "disabled"

\* A run has ended: _finish ran and no posted callback is left.
RunFinished == runs > 0 /\ pc = "returned" /\ ~is_running /\ queue = <<>>

\* C18: once a run has finished the status label shows a terminal status
\* ("Done", "Cancelled" or "Failed"), never a transient one; also for a run
\* that found no files, a run cancelled while scanning, and a Cancel click
\* that came after the work had ended.
C18_FinishedRunShowsTerminalStatus ==
    RunFinished => status_label \in {"Done", "Cancelled", "Failed"}

\* C19: at most one comparison is active: whenever the Run button is enabled,
\* no comparison thread is inside _comparison_worker and no pool thread is
\* running or waiting to run a unit; the button is disabled from the start
\* of a run until _finish.
C19_OneComparisonAtATime ==
    /\ run_btn = "normal" =>
          /\ pc \in {"idle", "returned"}
          /\ ExecutingUnits = {}
          /\ PendingUnits = {}
          /\ ~is_running
    /\ pc \notin {"idle", "returned"} => (is_running /\ run_btn = "disabled")

\* C19 witness: a second run has been started after the first one's units
\* were compared and its thread returned.
C19_Witness ==
    /\ runs = 2
    /\ pc = "begin"
    /\ run_btn = "disabled"
    /\ diskAtStart.json.built

====
